---------------------------- MODULE Spec2Model ----------------------------
(***************************************************************************)
(* Model of src/src/etl.py: the DataProcessor ETL pipeline of the print    *)
(* shop (extract_data -> transform_data -> load_data, sequenced by         *)
(* run_pipeline).                                                          *)
(*                                                                         *)
(* A DataFrame is a record                                                 *)
(*    [cols  : sequence of column names (column order),                    *)
(*     dtype : column name -> "number" | "object" | "datetime64" |         *)
(*                            "category",                                  *)
(*     data  : column name -> sequence of cells (row order)]               *)
(* A cell is a record tagged by k:                                         *)
(*    [k |-> "nan"]                       a missing value (NaN/None/NaT)   *)
(*    [k |-> "num", n, d]                 the number n/d, d > 0, reduced   *)
(*    [k |-> "inf", sign]                 the floats +inf / -inf           *)
(*    [k |-> "str", s]                    a string                         *)
(*    [k |-> "text", month, weekday, hour] a string holding a timestamp    *)
(*    [k |-> "ts", month, weekday, hour]  a parsed Timestamp               *)
(* Floating point values are modelled as exact rationals; a timestamp      *)
(* carries the calendar components that pandas' .dt accessors read.        *)
(***************************************************************************)
EXTENDS Integers, Sequences, FiniteSets, TLC

VARIABLES
    dirs,         \* the directories that exist on the filesystem
    files,        \* path -> the file at that path (FAbsent, FMalformed, FPartial or FCsv(table))
    pc,           \* where the caller is: "new", "idle", "extract", "transform", "load", "done", "failed"
    input_file,   \* run_pipeline's input_file argument (NoPath for None)
    output_file,  \* run_pipeline's output_file argument
    df_raw,       \* the DataFrame extract_data returned, the argument of transform_data
    df_processed, \* what transform_data returned or raised
    ret,          \* what the last stage returned or raised
    calls,        \* stage -> how many times the current run invoked it
    files0,       \* the files as they were when the current run began
    runs          \* how many times run_pipeline was called

vars == <<dirs, files, pc, input_file, output_file, df_raw, df_processed, ret,
          calls, files0, runs>>

----------------------------------------------------------------------------
(* Cells                                                                   *)

NaN == [k |-> "nan"]

Abs(i) == IF i < 0 THEN 0 - i ELSE i

RECURSIVE Gcd(_, _)
Gcd(a, b) == IF b = 0 THEN a ELSE Gcd(b, a % b)

\* The number n/d (d # 0) in lowest terms with a positive denominator.
Num(n, d) ==
    LET g == Gcd(Abs(n), Abs(d))
        s == IF d < 0 THEN 0 - 1 ELSE 1
    IN  [k |-> "num", n |-> (s * n) \div g, d |-> Abs(d) \div g]

Int2Num(i) == [k |-> "num", n |-> i, d |-> 1]

Inf(sign) == [k |-> "inf", sign |-> sign]

Str(s) == [k |-> "str", s |-> s]

Text(m, w, h) == [k |-> "text", month |-> m, weekday |-> w, hour |-> h]

Ts(m, w, h) == [k |-> "ts", month |-> m, weekday |-> w, hour |-> h]

\* Series.isnull() on one cell
isnull(c) == c.k = "nan"

IsNum(c) == c.k = "num"

\* a < b, a <= b on numbers
NumLt(a, b) == a.n * b.d < b.n * a.d

NumLe(a, b) == a.n * b.d <= b.n * a.d

\* a / b on float cells: NaN propagates, x/0 is +-inf, 0/0 is NaN
TrueDiv(a, b) ==
    IF ~IsNum(a) \/ ~IsNum(b) THEN NaN
    ELSE IF b.n = 0
         THEN IF a.n = 0 THEN NaN
              ELSE IF a.n > 0 THEN Inf(1) ELSE Inf(0 - 1)
         ELSE Num(a.n * b.d, a.d * b.n)

\* Series.replace([np.inf, -np.inf], 0) on one cell
ReplaceInf(c) == IF c.k = "inf" THEN Int2Num(0) ELSE c

----------------------------------------------------------------------------
(* Series helpers                                                          *)

RECURSIVE SelectNums(_)
\* Series.dropna(): the non-missing cells, in order
SelectNums(s) ==
    IF s = <<>> THEN <<>>
    ELSE IF isnull(Head(s)) THEN SelectNums(Tail(s))
         ELSE <<Head(s)>> \o SelectNums(Tail(s))

RECURSIVE Insert(_, _)
Insert(x, s) ==
    IF s = <<>> THEN <<x>>
    ELSE IF NumLe(x, Head(s)) THEN <<x>> \o s
         ELSE <<Head(s)>> \o Insert(x, Tail(s))

RECURSIVE SortNums(_)
SortNums(s) == IF s = <<>> THEN <<>> ELSE Insert(Head(s), SortNums(Tail(s)))

RECURSIVE SumNums(_)
SumNums(s) ==
    IF s = <<>> THEN Int2Num(0)
    ELSE LET t == SumNums(Tail(s))
         IN  Num(Head(s).n * t.d + t.n * Head(s).d, Head(s).d * t.d)

\* a faulty median: the mean of the non-missing cells
median_as_mean(s) ==
    LET v == SelectNums(s)
    IN  IF v = <<>> THEN NaN
        ELSE Num(SumNums(v).n, SumNums(v).d * Len(v))

\* Series.median(): skips missing cells; the middle value of the sorted
\* rest, the mean of the two middle values when their count is even, NaN
\* when nothing is left.
median(s) ==
    LET v == SortNums(SelectNums(s))
        n == Len(v)
    IN  IF n = 0 THEN NaN
        ELSE IF n % 2 = 1 THEN v[(n + 1) \div 2]
             ELSE LET a == v[n \div 2]
                      b == v[n \div 2 + 1]
                  IN  Num(a.n * b.d + b.n * a.d, 2 * a.d * b.d)

\* Series.fillna(value): a NaN fill value leaves the cells missing
fillna(s, value) == [i \in 1..Len(s) |-> IF isnull(s[i]) THEN value ELSE s[i]]

AnyNull(s) == \E i \in 1..Len(s) : isnull(s[i])

----------------------------------------------------------------------------
(* DataFrame helpers                                                       *)

ColSet(d) == {d.cols[i] : i \in 1..Len(d.cols)}

NRows(d) == IF d.cols = <<>> THEN 0 ELSE Len(d.data[d.cols[1]])

\* df[name] = cells : an existing column is replaced in place, a new one is
\* appended after the last column
SetCol(d, name, dt, cells) ==
    IF name \in ColSet(d)
    THEN [d EXCEPT !.dtype[name] = dt, !.data[name] = cells]
    ELSE [cols  |-> Append(d.cols, name),
          dtype |-> [c \in ColSet(d) \cup {name} |-> IF c = name THEN dt ELSE d.dtype[c]],
          data  |-> [c \in ColSet(d) \cup {name} |-> IF c = name THEN cells ELSE d.data[c]]]

\* select_dtypes(include=[np.number]).columns / select_dtypes(include=['object']).columns
numeric_cols(d) == {c \in ColSet(d) : d.dtype[c] = "number"}

categorical_cols(d) == {c \in ColSet(d) : d.dtype[c] = "object"}

----------------------------------------------------------------------------
(* transform_data                                                          *)

\* the fill value of line 129
Sentinel == "Desconocido"

\* bins and labels of the pd.cut call, lines 144-145 (the first label is
\* 'Pequeño' in the source; it is written here in ASCII)
bins == <<0, 50, 200, 500>>

labels == <<"Pequeno", "Mediano", "Grande">>

Raise(kind, what) == [ok |-> FALSE, err |-> kind, what |-> what]

Return(d) == [ok |-> TRUE, df |-> d]

\* a faulty numeric imputation: the filled column is not assigned back
ImputeNumeric_unassigned(d) == d

\* lines 123-125: every numeric column that has a missing cell is filled
\* with its own median
ImputeNumeric(d) ==
    [d EXCEPT !.data =
        [c \in ColSet(d) |->
            IF c \in numeric_cols(d) /\ AnyNull(d.data[c])
            THEN fillna(d.data[c], median(d.data[c]))
            ELSE d.data[c]]]

\* a faulty categorical imputation: the whole column is overwritten
ImputeCategorical_overwrite(d) ==
    [d EXCEPT !.data =
        [c \in ColSet(d) |->
            IF c \in categorical_cols(d) /\ AnyNull(d.data[c])
            THEN [i \in 1..Len(d.data[c]) |-> Str(Sentinel)]
            ELSE d.data[c]]]

\* lines 127-129: every object column that has a missing cell is filled
\* with the sentinel
ImputeCategorical(d) ==
    [d EXCEPT !.data =
        [c \in ColSet(d) |->
            IF c \in categorical_cols(d) /\ AnyNull(d.data[c])
            THEN fillna(d.data[c], Str(Sentinel))
            ELSE d.data[c]]]

\* pd.to_datetime on one cell: a Timestamp stays, a timestamp string is
\* parsed, a missing value becomes NaT, a small integer is that many
\* nanoseconds after 1970-01-01 00:00 (a Thursday); any other string is
\* not a date and makes the call raise.
CanParse(c) == c.k \in {"ts", "text", "nan", "num"}

to_datetime(c) ==
    CASE c.k = "ts"   -> c
      [] c.k = "text" -> Ts(c.month, c.weekday, c.hour)
      [] c.k = "num"  -> Ts(1, "Thursday", 0)
      [] OTHER        -> NaN

\* .dt.month, .dt.day_name(), .dt.hour on one cell (NaT gives NaN)
dt_month(c) == IF c.k = "ts" THEN Int2Num(c.month) ELSE NaN

dt_day_name(c) == IF c.k = "ts" THEN Str(c.weekday) ELSE NaN

dt_hour(c) == IF c.k = "ts" THEN Int2Num(c.hour) ELSE NaN

\* a faulty cut: left-inclusive intervals [bins[i], bins[i+1])
cut_left_closed(c) ==
    IF ~IsNum(c) THEN NaN
    ELSE IF \E i \in 1..Len(labels) :
                NumLe(Int2Num(bins[i]), c) /\ NumLt(c, Int2Num(bins[i + 1]))
         THEN Str(labels[CHOOSE i \in 1..Len(labels) :
                NumLe(Int2Num(bins[i]), c) /\ NumLt(c, Int2Num(bins[i + 1]))])
         ELSE NaN

\* pd.cut(x, bins, labels) on one cell, right-inclusive intervals
\* (bins[i], bins[i+1]]; a value in no interval, or a missing one, gives NaN
cut(c) ==
    IF ~IsNum(c) THEN NaN
    ELSE IF \E i \in 1..Len(labels) :
                NumLt(Int2Num(bins[i]), c) /\ NumLe(c, Int2Num(bins[i + 1]))
         THEN Str(labels[CHOOSE i \in 1..Len(labels) :
                NumLt(Int2Num(bins[i]), c) /\ NumLe(c, Int2Num(bins[i + 1]))])
         ELSE NaN

\* line 138 on one row
CostPerPage(cost, pages) == TrueDiv(cost, pages)

MapCol(d, name, Op(_)) == [i \in 1..NRows(d) |-> Op(d.data[name][i])]

\* lines 132-135
AddDateFeatures(d) ==
    LET d1 == SetCol(d, "fecha_solicitud", "datetime64", MapCol(d, "fecha_solicitud", to_datetime))
        d2 == SetCol(d1, "mes", "number", MapCol(d1, "fecha_solicitud", dt_month))
        d3 == SetCol(d2, "dia_semana", "object", MapCol(d2, "fecha_solicitud", dt_day_name))
    IN  SetCol(d3, "hora", "number", MapCol(d3, "fecha_solicitud", dt_hour))

\* lines 138-139
AddCostPerPage(d) ==
    LET q == [i \in 1..NRows(d) |->
                 CostPerPage(d.data["costo_estimado"][i], d.data["cantidad_paginas"][i])]
    IN  SetCol(d, "costo_por_pagina", "number", [i \in 1..NRows(d) |-> ReplaceInf(q[i])])

\* lines 142-146
AddSizeCategory(d) ==
    SetCol(d, "categoria_tamano", "category", MapCol(d, "cantidad_paginas", cut))

\* transform_data(df), lines 104-150: the returned DataFrame, or the
\* exception that leaves the call (a missing column is a KeyError at the
\* first line that reads it, an unparseable date a ValueError at line 132).
transform_data(d) ==
    LET d2 == ImputeCategorical(ImputeNumeric(d))
    IN  IF "fecha_solicitud" \notin ColSet(d2) THEN Raise("KeyError", "fecha_solicitud")
        ELSE IF \E i \in 1..NRows(d2) : ~CanParse(d2.data["fecha_solicitud"][i])
             THEN Raise("ValueError", "fecha_solicitud")
        ELSE IF "costo_estimado" \notin ColSet(d2) THEN Raise("KeyError", "costo_estimado")
        ELSE IF "cantidad_paginas" \notin ColSet(d2) THEN Raise("KeyError", "cantidad_paginas")
        ELSE Return(AddSizeCategory(AddCostPerPage(AddDateFeatures(d2))))

----------------------------------------------------------------------------
(* Filesystem, extract_data, load_data                                     *)

\* data_path of __init__ and the two directories built from it, lines 30-32
raw_path == "data/raw"

processed_path == "data/processed"

\* a subdirectory of processed_path that a filename such as
\* "sub/salida.csv" names; nothing in the program creates it
sub_path == "data/processed/sub"

\* A path is <<directory, name>>; None is <<>>
NoPath == <<>>

FAbsent == [st |-> "absent"]

FMalformed == [st |-> "malformed"]

FPartial == [st |-> "partial"]

FCsv(t) == [st |-> "csv", table |-> t]

\* os.path.exists(path)
exists(fs, path) == fs[path].st # "absent"

\* os.path.join(self.processed_path, filename), line 161
output_path(filename) == <<processed_path, filename>>

\* the directory that holds processed_path/filename
Dirname(filename) == IF filename = "sub/salida.csv" THEN sub_path ELSE processed_path

\* a faulty _create_directories: processed_path is left out of the list
create_directories_raw_only(ds) == ds \cup {raw_path}

\* _create_directories, lines 37-44: makedirs for each of the two
\* directories that does not exist
create_directories(ds) == ds \cup {raw_path, processed_path}

\* DataFrame.to_csv(index=False): header and all rows; a Timestamp is
\* written as its text, a missing value as an empty field, and the dtypes
\* are not written
CsvCell(c) == IF c.k = "ts" THEN Text(c.month, c.weekday, c.hour) ELSE c

to_csv(d) ==
    [cols |-> d.cols,
     data |-> [c \in ColSet(d) |-> [i \in 1..NRows(d) |-> CsvCell(d.data[c][i])]]]

\* pd.read_csv: a column whose fields are all numbers or empty is numeric,
\* any other column is an object column; empty fields are missing values
read_csv(t) ==
    [cols  |-> t.cols,
     dtype |-> [c \in ColSet(t) |->
                   IF \A i \in 1..Len(t.data[c]) : t.data[c][i].k \in {"num", "nan"}
                   THEN "number" ELSE "object"],
     data  |-> t.data]

\* _load_sample_data, lines 73-102, cut down to n rows of the columns that
\* transform_data reads and one categorical column: hourly timestamps from
\* 2023-01-01 (a Sunday), pages in 1..499, cost in 50..5000, no missing value
SampleCols == <<"fecha_solicitud", "departamento", "cantidad_paginas", "costo_estimado">>

load_sample_data(n) ==
    [cols  |-> SampleCols,
     dtype |-> [c \in {SampleCols[i] : i \in 1..Len(SampleCols)} |->
                   CASE c = "fecha_solicitud" -> "datetime64"
                     [] c = "departamento"    -> "object"
                     [] OTHER                 -> "number"],
     data  |-> [c \in {SampleCols[i] : i \in 1..Len(SampleCols)} |->
                   [i \in 1..n |->
                       CASE c = "fecha_solicitud"  -> Ts(1, "Sunday", (i - 1) % 24)
                         [] c = "departamento"     -> Str("Filosofia")
                         [] c = "cantidad_paginas" -> Int2Num(1 + ((i * 102) % 499))
                         [] OTHER                  -> Int2Num(50 + ((i * 860) % 4950))]]]

\* extract_data(file_path), lines 46-71: read the file when a path is given
\* and exists, the sample data in every other case; whatever read_csv
\* raises is logged and raised again
extract_data(fs, file_path, n) ==
    IF file_path # NoPath /\ exists(fs, file_path)
    THEN IF fs[file_path].st = "csv"
         THEN Return(read_csv(fs[file_path].table))
         ELSE Raise("ParserError", "read_csv")
    ELSE Return(load_sample_data(n))

\* load_data(df, filename), lines 152-167. to_csv opens processed_path/filename
\* for writing: it raises OSError when the directory that holds it does not
\* exist. io is what the operating system does with the write: "ok",
\* "open_error" (nothing is written) or "write_error" (the file is left cut
\* short). Every exception is logged and raised again.
load_ok(ds, filename, io) == Dirname(filename) \in ds /\ io = "ok"

load_data(ds, d, filename, io) ==
    IF load_ok(ds, filename, io)
    THEN [ok |-> TRUE, path |-> output_path(filename)]
    ELSE Raise("OSError", IF Dirname(filename) \notin ds THEN "non-existent directory" ELSE io)

\* the directories after load_data: it creates none
load_dirs(ds, filename) == ds

\* the files after load_data
load_files(fs, ds, d, filename, io) ==
    IF Dirname(filename) \notin ds \/ io = "open_error" THEN fs
    ELSE IF io = "write_error" THEN [fs EXCEPT ![output_path(filename)] = FPartial]
    ELSE [fs EXCEPT ![output_path(filename)] = FCsv(to_csv(d))]

\* transform_data without the copy: the caller's DataFrame is the one that
\* was worked on
CallerFrame_inplace(d, r) == IF r.ok THEN r.df ELSE d

\* line 117, df.copy(): the caller's DataFrame after transform_data(df)
\* returned or raised r
CallerFrame(d, r) == d

----------------------------------------------------------------------------
(* Bounds and input sets                                                   *)

\* rows of the tables given to transform_data
MaxRows == 2

\* rows of the tables that exercise the imputation
MaxImputeRows == 4

\* rows of the sample table (n_samples, 1000 in the source)
MaxSampleRows == 2

\* calls of run_pipeline on one DataProcessor
MaxRuns == 2

Schema == <<"fecha_solicitud", "departamento", "cantidad_paginas", "costo_estimado">>

SchemaSet == {Schema[i] : i \in 1..Len(Schema)}

RequiredCols == {"fecha_solicitud", "cantidad_paginas", "costo_estimado"}

RECURSIVE Without(_, _)
\* the sequence s without the element x
Without(s, x) ==
    IF s = <<>> THEN <<>>
    ELSE IF Head(s) = x THEN Without(Tail(s), x)
         ELSE <<Head(s)>> \o Without(Tail(s), x)

\* A DataFrame of the schema's columns except `absent`, built in memory:
\* rows is a sequence of functions column -> cell; the timestamp column has
\* dtype tsdtype, departamento is an object column, the others are numeric
Frame(absent, tsdtype, rows) ==
    LET cs == Without(Schema, absent)
        S  == {cs[i] : i \in 1..Len(cs)}
    IN  [cols  |-> cs,
         dtype |-> [c \in S |-> CASE c = "fecha_solicitud" -> tsdtype
                                  [] c = "departamento"    -> "object"
                                  [] OTHER                 -> "number"],
         data  |-> [c \in S |-> [i \in 1..Len(rows) |-> rows[i][c]]]]

RowSet(tsvals, depvals, pagevals, costvals) ==
    {[c \in SchemaSet |-> CASE c = "fecha_solicitud"  -> t
                            [] c = "departamento"     -> dp
                            [] c = "cantidad_paginas" -> pg
                            [] OTHER                  -> co] :
        t \in tsvals, dp \in depvals, pg \in pagevals, co \in costvals}

Nums(S) == {Int2Num(i) : i \in S}

\* rows 1..n, each drawn from R, for every n up to max
Rows(R, max) == UNION {[1..n -> R] : n \in 1..max}

\* tables that vary the shape: a column absent, missing values, the
\* timestamps as Timestamps or as text
ShapeFrames ==
    {Frame(absent, tsdtype, rows) :
        absent \in SchemaSet \cup {"none"},
        tsdtype \in {"datetime64", "object"},
        rows \in Rows(RowSet({Ts(3, "Monday", 9), Text(3, "Monday", 9), NaN},
                             {Str("Letras"), NaN},
                             {NaN} \cup Nums({10}),
                             Nums({100})), MaxRows)}

\* a Frame whose timestamp cells fit the column's dtype
WellTyped(d) ==
    "fecha_solicitud" \in ColSet(d) =>
        \A i \in 1..NRows(d) :
            LET c == d.data["fecha_solicitud"][i]
            IN  c.k = "nan" \/ (d.dtype["fecha_solicitud"] = "datetime64" /\ c.k = "ts")
                            \/ (d.dtype["fecha_solicitud"] = "object" /\ c.k = "text")

\* tables that vary the page counts, on and around the bin edges
PageFrames ==
    {Frame("none", "datetime64", rows) :
        rows \in Rows(RowSet({Ts(3, "Monday", 9)}, {Str("Letras")},
                             {NaN} \cup Nums({0, 50, 51, 200, 201, 500, 501}),
                             Nums({100})), MaxRows)}

\* tables that vary the two operands of the division
CostFrames ==
    {Frame("none", "datetime64", rows) :
        rows \in Rows(RowSet({Ts(3, "Monday", 9)}, {Str("Letras")},
                             {NaN} \cup Nums({0, 10}),
                             {NaN} \cup Nums({0, 100})), MaxRows)}

\* longer tables with missing numbers, for the medians
ImputeFrames ==
    {Frame("none", "datetime64", rows) :
        rows \in Rows(RowSet({Ts(3, "Monday", 9)}, {Str("Letras")},
                             {NaN} \cup Nums({10, 51, 200}),
                             Nums({100})), MaxImputeRows)}

\* the tables transform_data is called with: built in memory, or read back
\* from a CSV file (which turns timestamps into text and infers the dtypes)
TransformInputs ==
    LET Built == {d \in ShapeFrames : WellTyped(d)} \cup PageFrames \cup CostFrames \cup ImputeFrames
    IN  Built \cup {read_csv(to_csv(d)) : d \in Built}

\* the CSV files run_pipeline is given
SourceTables ==
    {to_csv(Frame(absent, "object", rows)) :
        absent \in {"none", "costo_estimado"},
        rows \in Rows(RowSet({Text(3, "Monday", 9), NaN}, {Str("Letras")},
                             {NaN} \cup Nums({10}), Nums({100})), MaxRows)}

GoodPath == <<"entrada", "trabajos.csv">>

MissingPath == <<"entrada", "no_existe.csv">>

BadPath == <<"entrada", "corrupto.csv">>

InputPaths == {NoPath, GoodPath, MissingPath, BadPath}

OutputNames == {"datos_procesados.csv", "sub/salida.csv"}

AllPaths == {GoodPath, MissingPath, BadPath} \cup {output_path(f) : f \in OutputNames}

Stages == {"extract", "transform", "load"}

EmptyFrame == [cols |-> <<>>, dtype |-> <<>>, data |-> <<>>]

NotCalled == Raise("NotCalled", "")

----------------------------------------------------------------------------
(* The state machine                                                       *)

\* Before DataProcessor() is constructed: any of the directories may exist,
\* the source files are in place and nothing has been written yet.
Init ==
    /\ dirs \in {D \in SUBSET {raw_path, processed_path, sub_path} :
                    sub_path \in D => processed_path \in D}
    /\ \E t \in SourceTables :
           files = [q \in AllPaths |->
                       IF q = GoodPath THEN FCsv(t)
                       ELSE IF q = BadPath THEN FMalformed
                       ELSE FAbsent]
    /\ pc = "new"
    /\ input_file = NoPath
    /\ output_file = "datos_procesados.csv"
    /\ df_raw = EmptyFrame
    /\ df_processed = NotCalled
    /\ ret = NotCalled
    /\ calls = [st \in Stages |-> 0]
    /\ files0 = files
    /\ runs = 0

\* __init__, lines 23-35
Construct ==
    /\ pc = "new"
    /\ dirs' = create_directories(dirs)
    /\ pc' = "idle"
    /\ UNCHANGED <<files, input_file, output_file, df_raw, df_processed, ret,
                   calls, files0, runs>>

\* run_pipeline is called, line 169
RunPipeline ==
    /\ pc \in {"idle", "done", "failed"}
    /\ runs < MaxRuns
    /\ \E inp \in InputPaths, out \in OutputNames :
           /\ input_file' = inp
           /\ output_file' = out
    /\ pc' = "extract"
    /\ df_raw' = EmptyFrame
    /\ df_processed' = NotCalled
    /\ ret' = NotCalled
    /\ calls' = [st \in Stages |-> 0]
    /\ files0' = files
    /\ runs' = runs + 1
    /\ UNCHANGED <<dirs, files>>

\* line 183: df_raw = self.extract_data(input_file); an exception leaves
\* run_pipeline
ExtractData ==
    /\ pc = "extract"
    /\ LET r == extract_data(files, input_file, MaxSampleRows)
       IN  /\ ret' = r
           /\ df_raw' = IF r.ok THEN r.df ELSE df_raw
           /\ pc' = IF r.ok THEN "transform" ELSE "failed"
    /\ calls' = [calls EXCEPT !["extract"] = @ + 1]
    /\ UNCHANGED <<dirs, files, input_file, output_file, df_processed, files0, runs>>

\* a faulty run_pipeline that catches the exception and goes on
AfterTransform_continue(r) == "load"

\* where run_pipeline goes after transform_data returned or raised r
AfterTransform(r) == IF r.ok THEN "load" ELSE "failed"

\* line 186: df_processed = self.transform_data(df_raw)
TransformData ==
    /\ pc = "transform"
    /\ LET r == transform_data(df_raw)
       IN  /\ ret' = r
           /\ df_processed' = r
           /\ df_raw' = CallerFrame(df_raw, r)
           /\ pc' = AfterTransform(r)
    /\ calls' = [calls EXCEPT !["transform"] = @ + 1]
    /\ UNCHANGED <<dirs, files, input_file, output_file, files0, runs>>

\* line 189: self.load_data(df_processed, output_file), then the return of
\* line 192. Line 189 is reached only after transform_data returned, so d
\* is its result.
LoadData ==
    /\ pc = "load"
    /\ \E io \in {"ok", "open_error", "write_error"} :
           LET d == IF df_processed.ok THEN df_processed.df ELSE df_raw
               r == load_data(dirs, d, output_file, io)
           IN  /\ ret' = r
               /\ files' = load_files(files, dirs, d, output_file, io)
               /\ dirs' = load_dirs(dirs, output_file)
               /\ pc' = IF r.ok THEN "done" ELSE "failed"
    /\ calls' = [calls EXCEPT !["load"] = @ + 1]
    /\ UNCHANGED <<input_file, output_file, df_raw, df_processed, files0, runs>>

Next == Construct \/ RunPipeline \/ ExtractData \/ TransformData \/ LoadData

Spec == Init /\ [][Next]_vars

\* transform_data called on its own with each table of TransformInputs
InitTransform ==
    /\ dirs = {raw_path, processed_path}
    /\ files = [q \in AllPaths |-> FAbsent]
    /\ pc = "transform"
    /\ input_file = NoPath
    /\ output_file = "datos_procesados.csv"
    /\ df_raw \in TransformInputs
    /\ df_processed = NotCalled
    /\ ret = NotCalled
    /\ calls = [st \in Stages |-> 0]
    /\ files0 = files
    /\ runs = 0

NextTransform == TransformData

SpecTransform == InitTransform /\ [][NextTransform]_vars

----------------------------------------------------------------------------
(* Properties                                                              *)

\* transform_data has been called and has returned a table
Transformed == calls["transform"] = 1 /\ df_processed.ok

\* transform_data has been called and has raised
TransformFailed == calls["transform"] = 1 /\ ~df_processed.ok

\* extract_data has been called and has raised
ExtractFailed == calls["extract"] = 1 /\ calls["transform"] = 0 /\ pc = "failed"

DerivedCols == <<"mes", "dia_semana", "hora", "costo_por_pagina", "categoria_tamano">>

\* C1: when extract_data or transform_data raises, the run ends there with
\* that stage's exception: load_data is not invoked, no stage is invoked a
\* second time, and the files are as they were when the run began.
C1_FailFast ==
    /\ \A st \in Stages : calls[st] <= 1
    /\ ExtractFailed =>
          /\ ~ret.ok /\ ret = extract_data(files0, input_file, MaxSampleRows)
          /\ calls["load"] = 0
          /\ files = files0
    /\ TransformFailed =>
          /\ pc = "failed"
          /\ ~ret.ok /\ ret = df_processed /\ ret.err \in {"KeyError", "ValueError"}
          /\ calls["load"] = 0
          /\ files = files0

C1_Witness ==
    /\ TransformFailed /\ pc = "failed" /\ runs = 2
    /\ exists(files, output_path("datos_procesados.csv"))
    /\ output_file = "datos_procesados.csv"

\* C2: transform_data raises if and only if one of the columns it reads
\* (fecha_solicitud, costo_estimado, cantidad_paginas) is absent.
C2_FailsIffColumnAbsent ==
    calls["transform"] = 1 =>
        (~df_processed.ok <=> ~(RequiredCols \subseteq ColSet(df_raw)))

\* C3: extract_data with a path whose file is missing or unreadable raises
\* and returns no table; the sample table is returned only for no path.
C3_MissingSourceFails ==
    (calls["extract"] = 1 /\ calls["transform"] = 0 /\ pc \in {"transform", "failed"}) =>
        /\ (input_file # NoPath /\ files[input_file].st # "csv") => ~ret.ok
        /\ (ret.ok /\ ret.df = load_sample_data(MaxSampleRows)) => input_file = NoPath

\* C4 as claimed: after transform_data no numeric column and no categorical
\* column of the result, derived columns included, holds a missing value.
C4_NoMissingAnywhere ==
    Transformed =>
        \A c \in ColSet(df_processed.df) :
            df_processed.df.dtype[c] \in {"number", "object", "category"} =>
                ~AnyNull(df_processed.df.data[c])

\* C4 (amended): after transform_data, every input column of numeric dtype
\* that had at least one value and every input column of object dtype
\* holds no missing value.
C4_NoMissingInImputedColumns ==
    Transformed =>
        \A c \in ColSet(df_raw) :
            \/ /\ c \in numeric_cols(df_raw)
               /\ \A i \in 1..NRows(df_raw) : isnull(df_raw.data[c][i])
            \/ c \notin numeric_cols(df_raw) \cup categorical_cols(df_raw)
            \/ ~AnyNull(df_processed.df.data[c])

C4_Witness ==
    /\ Transformed
    /\ \E c \in numeric_cols(df_raw) :
           AnyNull(df_raw.data[c]) /\ ~AnyNull(df_processed.df.data[c])
    /\ \E c \in categorical_cols(df_raw) :
           AnyNull(df_raw.data[c]) /\ ~AnyNull(df_processed.df.data[c])

\* C5: on every row whose cost and page count are present, costo_por_pagina
\* is a finite number >= 0, equal to costo_estimado / cantidad_paginas when
\* cantidad_paginas is not 0 and equal to 0 when cantidad_paginas is 0.
C5_CostPerPageFinite ==
    Transformed =>
        \A i \in 1..NRows(df_processed.df) :
            LET cost  == df_processed.df.data["costo_estimado"][i]
                pages == df_processed.df.data["cantidad_paginas"][i]
                q     == df_processed.df.data["costo_por_pagina"][i]
            IN  (IsNum(cost) /\ IsNum(pages)) =>
                    /\ IsNum(q) /\ q.n >= 0
                    /\ pages.n # 0 => q.n * pages.n * cost.d = cost.n * q.d * pages.d
                    /\ pages.n = 0 => q.n = 0

\* the value of the r-th smallest of the non-missing cells of s is s[i]
IsOrderStatistic(s, i, r) ==
    /\ ~isnull(s[i])
    /\ Cardinality({j \in 1..Len(s) : ~isnull(s[j]) /\ NumLt(s[j], s[i])}) < r
    /\ Cardinality({j \in 1..Len(s) : ~isnull(s[j]) /\ NumLe(s[j], s[i])}) >= r

\* m is the median of the non-missing cells of s: the mean of the two
\* middle order statistics (one and the same for an odd count), and a
\* missing value when s has no value at all
IsMedianOf(m, s) ==
    LET n == Cardinality({j \in 1..Len(s) : ~isnull(s[j])})
    IN  IF n = 0 THEN isnull(m)
        ELSE /\ IsNum(m)
             /\ \E i, j \in 1..Len(s) :
                    /\ IsOrderStatistic(s, i, (n + 1) \div 2)
                    /\ IsOrderStatistic(s, j, (n \div 2) + 1)
                    /\ 2 * m.n * s[i].d * s[j].d = m.d * (s[i].n * s[j].d + s[j].n * s[i].d)

\* d with every cell of column c replaced by v
WithColumn(d, c, v) == [d EXCEPT !.data[c] = [i \in 1..NRows(d) |-> v]]

\* cells that a column of the given dtype can hold
OtherCells(dt) ==
    CASE dt = "number"     -> {NaN, Int2Num(7)}
      [] dt = "datetime64" -> {NaN, Ts(1, "Sunday", 0)}
      [] OTHER             -> {NaN, Str("Historia"), Text(1, "Sunday", 0)}

\* C6: in every numeric column that has missing cells, each missing cell
\* becomes the median of the column's own values, the other cells keep
\* their value, and replacing the content of another column does not change the
\* column's result.
C6_MedianImputation ==
    Transformed =>
        \A c \in numeric_cols(df_raw) :
            AnyNull(df_raw.data[c]) =>
                /\ \A i \in 1..NRows(df_raw) :
                       IF isnull(df_raw.data[c][i])
                       THEN IsMedianOf(df_processed.df.data[c][i], df_raw.data[c])
                       ELSE df_processed.df.data[c][i] = df_raw.data[c][i]
                /\ \A c2 \in ColSet(df_raw) \ {c} :
                       \A v \in OtherCells(df_raw.dtype[c2]) :
                           LET r2 == transform_data(WithColumn(df_raw, c2, v))
                           IN  r2.ok => r2.df.data[c] = df_processed.df.data[c]

C6_Witness ==
    /\ Transformed
    /\ NRows(df_raw) = 4
    /\ \E i \in 1..4 :
           /\ isnull(df_raw.data["cantidad_paginas"][i])
           /\ df_processed.df.data["cantidad_paginas"][i] = Int2Num(51)
           /\ \E j, k \in 1..4 : /\ df_raw.data["cantidad_paginas"][j] = Int2Num(10)
                                 /\ df_raw.data["cantidad_paginas"][k] = Int2Num(200)

\* C7: in every categorical (object) column that has missing cells, exactly
\* the missing cells become the sentinel and the other cells keep their
\* value.
C7_CategoricalSentinel ==
    Transformed =>
        \A c \in categorical_cols(df_raw) :
            AnyNull(df_raw.data[c]) =>
                \A i \in 1..NRows(df_raw) :
                    IF isnull(df_raw.data[c][i])
                    THEN df_processed.df.data[c][i] = Str("Desconocido")
                    ELSE df_processed.df.data[c][i] = df_raw.data[c][i]

C7_Witness ==
    /\ Transformed
    /\ "departamento" \in categorical_cols(df_raw)
    /\ NRows(df_raw) = 2
    /\ isnull(df_raw.data["departamento"][1])
    /\ df_raw.data["departamento"][2] = Str("Letras")
    /\ df_processed.df.data["departamento"] = <<Str("Desconocido"), Str("Letras")>>

\* C8: categoria_tamano is decided by the row's cantidad_paginas after
\* imputation alone: (0, 50] Pequeno, (50, 200] Mediano, (200, 500] Grande,
\* and missing for 0 and for more than 500.
C8_SizeBins ==
    Transformed =>
        \A i \in 1..NRows(df_processed.df) :
            LET p == df_processed.df.data["cantidad_paginas"][i]
                s == df_processed.df.data["categoria_tamano"][i]
            IN  IsNum(p) =>
                    /\ (0 < p.n /\ p.n <= 50 * p.d) => s = Str("Pequeno")
                    /\ (50 * p.d < p.n /\ p.n <= 200 * p.d) => s = Str("Mediano")
                    /\ (200 * p.d < p.n /\ p.n <= 500 * p.d) => s = Str("Grande")
                    /\ (p.n = 0 \/ p.n > 500 * p.d) => isnull(s)

C8_Witness ==
    /\ Transformed
    /\ NRows(df_raw) = 2
    /\ df_processed.df.data["cantidad_paginas"] = <<Int2Num(50), Int2Num(200)>>
    /\ df_processed.df.data["categoria_tamano"] = <<Str("Pequeno"), Str("Mediano")>>

\* a cell of the input and the cell of the output hold the same value: the
\* same cell, or the Timestamp that the input's text denotes
SameValue(a, b) ==
    \/ a = b
    \/ a.k = "text" /\ b.k = "ts" /\ a.month = b.month /\ a.weekday = b.weekday /\ a.hour = b.hour

\* C9: a successful transform_data returns a table with the rows of its
\* argument in their order, the argument's columns followed by the five
\* derived columns, every non-missing input cell with its value, and the
\* argument itself is as it was before the call.
C9_ShapePreserved ==
    [][pc = "transform" =>
        /\ df_raw' = df_raw
        /\ df_processed'.ok =>
              /\ df_processed'.df.cols = df_raw.cols \o DerivedCols
              /\ \A c \in ColSet(df_processed'.df) :
                     Len(df_processed'.df.data[c]) = NRows(df_raw)
              /\ \A c \in ColSet(df_raw) : \A i \in 1..NRows(df_raw) :
                     ~isnull(df_raw.data[c][i]) =>
                         SameValue(df_raw.data[c][i], df_processed'.df.data[c][i])]_vars

C9_Witness ==
    /\ Transformed
    /\ NRows(df_raw) = 2
    /\ df_raw.dtype["fecha_solicitud"] = "object"
    /\ AnyNull(df_raw.data["cantidad_paginas"])
    /\ Len(df_processed.df.cols) = 9

\* load_data has been called in this run
Loaded == calls["load"] = 1 /\ pc \in {"done", "failed"}

\* C10 as claimed: every call of load_data leaves the directory of its
\* destination in existence, and either writes the whole table and returns
\* the path or fails on an error of the operating system.
C10_LoadEnsuresDirectory ==
    Loaded =>
        /\ Dirname(output_file) \in dirs
        /\ ret.ok \/ ret.what \in {"open_error", "write_error"}
        /\ ret.ok => /\ ret.path = output_path(output_file)
                     /\ files[output_path(output_file)] = FCsv(to_csv(df_processed.df))

\* C10 (amended): the constructor creates data/raw and data/processed;
\* load_data creates no directory. A call whose destination directory
\* exists writes the whole table and returns the path unless the operating
\* system fails the write; a call whose destination directory does not
\* exist raises OSError and writes nothing.
C10_LoadNeedsDirectory ==
    /\ pc # "new" => {raw_path, processed_path} \subseteq dirs
    /\ Loaded =>
          /\ ret.ok \/ ret.what \in {"open_error", "write_error", "non-existent directory"}
          /\ (~ret.ok /\ ret.what = "non-existent directory") <=> Dirname(output_file) \notin dirs
          /\ Dirname(output_file) \notin dirs => files = files0
          /\ ret.ok => /\ ret.path = output_path(output_file)
                       /\ files[output_path(output_file)] = FCsv(to_csv(df_processed.df))

C10_Witness ==
    /\ Loaded
    /\ output_file = "sub/salida.csv"
    /\ sub_path \notin dirs
    /\ ~ret.ok
    /\ files = files0

============================================================================
